---- MODULE Spec2Model ----
(***************************************************************************)
(* The user-account HTTP service of this repository: five prototype        *)
(* variants of the same four endpoints (signup, get, update, close) over a *)
(* process-local dictionary `users`.                                       *)
(*                                                                         *)
(*   app    src/app.py          FastAPI, hand-written Basic auth           *)
(*   main   src/main.py         FastAPI, HTTPBasic, authenticator returns  *)
(*                              a JSONResponse on failure                  *)
(*   main4  src/main4.py        FastAPI, HTTPBasic, authenticator raises   *)
(*   main5  src/main5.py        FastAPI, HTTPBasic, authenticator returns  *)
(*                              a JSONResponse on failure                  *)
(*   myapp  src/trial-myapp.py  Flask, no authentication                   *)
(*                                                                         *)
(* A Python str is a sequence of code points (naturals).  Python's None is *)
(* the one-element sequence <<-1>>, which is no string.                    *)
(***************************************************************************)
EXTENDS Integers, Sequences, FiniteSets, TLC

VARIABLES variant, users, last, nreq, created, closed, thr

vars == <<variant, users, last, nreq, created, closed, thr>>

Variants == {"app", "main", "main4", "main5", "myapp"}

BasicAuthVariants == {"app", "main", "main4", "main5"}

(***************************************************************************)
(* Bounds of the model.                                                    *)
(***************************************************************************)
\* requests handled in one run of the sequential specification
MaxRequests == 3

\* request threads of the concurrent specification, one request each
NumThreads == 3

(***************************************************************************)
(* Values.                                                                 *)
(***************************************************************************)
None == <<0 - 1>>

EmptyStr == << >>

\* "TaroYamada"
TaroYamada == <<84, 97, 114, 111, 89, 97, 109, 97, 100, 97>>

\* "PaSswd4TY"
TaroPassword == <<80, 97, 83, 115, 119, 100, 52, 84, 89>>

\* the seeded nickname, three code points of hiragana / katakana
TaroNickname == <<12383, 12429, 12540>>

\* the seeded comment, six code points
TaroComment == <<20693, 12399, 20803, 27671, 12391, 12377>>

\* "johndoe1"
JohnDoe == <<106, 111, 104, 110, 100, 111, 101, 49>>

\* "Passw0rd!"
StrongPassword == <<80, 97, 115, 115, 119, 48, 114, 100, 33>>

\* "pw": shorter than every variant's minimum
ShortPassword == <<112, 119>>

\* "Johnny"
Johnny == <<74, 111, 104, 110, 110, 121>>

\* "john_doe1": 9 characters, one of them outside [a-zA-Z0-9]
JohnUnderscore == <<106, 111, 104, 110, 95, 100, 111, 101, 49>>

\* "john1": alphanumeric, shorter than the minimum of 6
ShortId == <<106, 111, 104, 110, 49>>

\* "hello"
Hello == <<104, 101, 108, 108, 111>>

\* Python truthiness of an Optional[str]: None and "" are falsy.
Truthy(v) == v # None /\ v # EmptyStr

\* Python's `a or b` on Optional[str].
PyOr(a, b) == IF Truthy(a) THEN a ELSE b

(***************************************************************************)
(* hashlib.sha256(s.encode()).hexdigest().  The digest is modelled         *)
(* symbolically: a marker followed by the preimage.  It is deterministic   *)
(* and collision free, and it differs from every string a request can      *)
(* carry, as a 64-digit hex digest differs from every secret of at most 20 *)
(* characters.                                                             *)
(***************************************************************************)
Sha256Mark == 0 - 256

sha256_hexdigest(s) == <<Sha256Mark>> \o s

(***************************************************************************)
(* Field constraints of the pydantic request models.                       *)
(***************************************************************************)
UserIdMinLen == 6
UserIdMaxLen == 20
PasswordMinLen == 8
PasswordMaxLen == 20
NicknameMaxLen == 30
CommentMaxLen == 100

Lower == 97 .. 122
Upper == 65 .. 90
Digit == 48 .. 57
\* the symbols of main.py's password rule: ! @ # $ % ^ & *
Special == {33, 64, 35, 36, 37, 94, 38, 42}
\* [!-~]
Graph == 33 .. 126
\* [\x00-\x1F\x7F]
Control == (0 .. 31) \cup {127}

Chars(s) == {s[i] : i \in 1 .. Len(s)}

LenIn(s, lo, hi) == lo <= Len(s) /\ Len(s) <= hi

\* ^[a-zA-Z0-9]+$
IsAlnum(s) == Len(s) > 0 /\ Chars(s) \subseteq (Lower \cup Upper \cup Digit)

\* ^[!-~]+$
IsGraph(s) == Len(s) > 0 /\ Chars(s) \subseteq Graph

\* ^(?=.*[a-z])(?=.*[A-Z])(?=.*\d)(?=.*[!@#$%^&*]).+$
IsStrong(s) ==
    /\ Len(s) > 0
    /\ Chars(s) \cap Lower # {}
    /\ Chars(s) \cap Upper # {}
    /\ Chars(s) \cap Digit # {}
    /\ Chars(s) \cap Special # {}

\* ^[^\x00-\x1F\x7F]*$ , and `v and re.search(r"[\x00-\x1F\x7F]", v)` negated
NoControl(s) == Chars(s) \cap Control = {}

\* An Optional[str] field with max_length and the control-character pattern.
OptTextOk(v, hi) == v = None \/ (Len(v) <= hi /\ NoControl(v))

(***************************************************************************)
(* Requests, authenticator results and responses.                          *)
(***************************************************************************)
\* The Authorization header of a request; username = None when it is
\* missing or malformed.
Cred(u, p) == [username |-> u, password |-> p]

NoCred == Cred(None, None)

\* The JSON body; a field that is absent (or null) is None.
Body(uid, pw, nick, com, cur, new) ==
    [user_id |-> uid, password |-> pw, nickname |-> nick, comment |-> com,
     current_password |-> cur, new_password |-> new]

NoBody == Body(None, None, None, None, None, None)

Request(path, cred, body) == [path |-> path, cred |-> cred, body |-> body]

\* What the handler receives from the authenticator: a str (the user id),
\* None (app.py), a JSONResponse object (main.py, main5.py), or nothing
\* because the dependency raised HTTPException.
AuthStr(id) == [kind |-> "str", val |-> id, status |-> 200, msg |-> "ok"]

AuthNoneResult == [kind |-> "None", val |-> None, status |-> 401, msg |-> "Authentication Failed"]

AuthJSONResponse(code) ==
    [kind |-> "JSONResponse", val |-> None, status |-> code, msg |-> "Authentication Failed"]

AuthRaised(m) == [kind |-> "raised", val |-> None, status |-> 401, msg |-> m]

NoAuth == [kind |-> "unused", val |-> None, status |-> 0, msg |-> "unused"]

\* Python's `user_id != authenticated_user`: a str differs from every
\* JSONResponse object.
PyNe(user_id, auth) == ~(auth.kind = "str" /\ auth.val = user_id)

\* Python's `authenticated_user in users`: a JSONResponse object is hashable
\* and is never a key of the dictionary.
PyIn(auth, us) == auth.kind = "str" /\ auth.val \in DOMAIN us

UserOut(id, nick, com) == [user_id |-> id, nickname |-> nick, comment |-> com]

NoOut == UserOut(None, None, None)

\* The outcome of one handler run: the dictionary after it and the response.
Result(us, auth, status, msg, out) ==
    [users |-> us, auth |-> auth, status |-> status, msg |-> msg, out |-> out]

\* FastAPI's answer to a body that fails the pydantic model.
Unprocessable(us, auth) == Result(us, auth, 422, "Unprocessable Entity", NoOut)

\* An exception no handler catches (KeyError): 500.
ServerError(us, auth) == Result(us, auth, 500, "Internal Server Error", NoOut)

\* users[id] = rec
Put(us, id, rec) == [x \in DOMAIN us \cup {id} |-> IF x = id THEN rec ELSE us[x]]

\* del users[id], for id in users
Del(us, id) == [x \in DOMAIN us \ {id} |-> us[x]]

\* the dict records of app.py, main4.py and trial-myapp.py
DictUser(pw, nick, com) == [password |-> pw, nickname |-> nick, comment |-> com]

\* the User model of main.py and main5.py
User(id, pw, nick, com) ==
    [user_id |-> id, password |-> pw, nickname |-> nick, comment |-> com]

\* secrets.compare_digest(a, b)
compare_digest(a, b) == a = b

(***************************************************************************)
(* src/app.py                                                              *)
(***************************************************************************)
app_users == [x \in {} |-> DictUser(None, None, None)]

app_SignupRequest(body) ==
    /\ body.user_id # None
    /\ LenIn(body.user_id, UserIdMinLen, UserIdMaxLen)
    /\ IsAlnum(body.user_id)
    /\ body.password # None
    /\ LenIn(body.password, PasswordMinLen, PasswordMaxLen)
    /\ IsGraph(body.password)

app_UpdateRequest(body) ==
    /\ OptTextOk(body.nickname, NicknameMaxLen)
    /\ OptTextOk(body.comment, CommentMaxLen)

\* Mutation of signup: no test for an identifier already in use.
app_signup_no_duplicate_test(us, req) ==
    LET b == req.body IN
    IF ~app_SignupRequest(b) THEN Unprocessable(us, NoAuth)
    ELSE Result(Put(us, b.user_id, DictUser(b.password, b.user_id, EmptyStr)),
                NoAuth, 200, "Account successfully created",
                UserOut(b.user_id, b.user_id, None))

app_signup(us, req) ==
    LET b == req.body IN
    IF ~app_SignupRequest(b) THEN Unprocessable(us, NoAuth)
    ELSE IF b.user_id \in DOMAIN us
    THEN Result(us, NoAuth, 400, "already same user_id is used", NoOut)
    ELSE Result(Put(us, b.user_id, DictUser(b.password, b.user_id, EmptyStr)),
                NoAuth, 200, "Account successfully created",
                UserOut(b.user_id, b.user_id, None))

\* Mutation of get_user_from_auth_header: the secret is not compared.
app_get_user_from_auth_header_any_secret(us, cred) ==
    IF cred.username = None THEN AuthNoneResult
    ELSE IF cred.username \notin DOMAIN us THEN AuthNoneResult
    ELSE AuthStr(cred.username)

app_get_user_from_auth_header(us, cred) ==
    IF cred.username = None THEN AuthNoneResult
    ELSE IF cred.username \notin DOMAIN us THEN AuthNoneResult
    ELSE IF us[cred.username].password # cred.password THEN AuthNoneResult
    ELSE AuthStr(cred.username)

app_get_user(us, req) ==
    LET auth == app_get_user_from_auth_header(us, req.cred) IN
    IF auth.kind # "str" THEN Result(us, auth, 401, "Authentication Failed", NoOut)
    ELSE IF auth.val # req.path THEN Result(us, auth, 404, "No User found", NoOut)
    ELSE Result(us, auth, 200, "User details by user_id",
                UserOut(auth.val, us[auth.val].nickname, us[auth.val].comment))

\* update_data.dict(exclude_unset=True): UpdateRequest declares nickname and
\* comment only, so no other key is ever in it.
app_update_dict_keys(body) ==
    {f \in {"nickname", "comment"} : body[f] # None}

app_update_user(us, req) ==
    LET b == req.body
        auth == app_get_user_from_auth_header(us, req.cred)
        id == auth.val
        us1 == IF b.nickname # None
               THEN [us EXCEPT ![id].nickname = IF Truthy(b.nickname) THEN b.nickname ELSE id]
               ELSE us
        us2 == IF b.comment # None THEN [us1 EXCEPT ![id].comment = b.comment] ELSE us1
    IN
    IF ~app_UpdateRequest(b) THEN Unprocessable(us, NoAuth)
    ELSE IF auth.kind # "str" THEN Result(us, auth, 401, "Authentication Failed", NoOut)
    ELSE IF id # req.path THEN Result(us, auth, 403, "No Permission for Update", NoOut)
    ELSE IF b.nickname = None /\ b.comment = None
    THEN Result(us, auth, 400, "required nickname or comment", NoOut)
    ELSE IF "user_id" \in app_update_dict_keys(b) \/ "password" \in app_update_dict_keys(b)
    THEN Result(us, auth, 400, "not updatable user_id and password", NoOut)
    ELSE Result(us2, auth, 200, "User successfully updated",
                UserOut(None, us2[id].nickname, us2[id].comment))

app_close_account(us, req) ==
    LET auth == app_get_user_from_auth_header(us, req.cred) IN
    IF auth.kind # "str" THEN Result(us, auth, 401, "Authentication Failed", NoOut)
    ELSE IF auth.val \notin DOMAIN us THEN ServerError(us, auth)
    ELSE Result(Del(us, auth.val), auth, 200, "Account and user successfully removed", NoOut)

(***************************************************************************)
(* src/main.py                                                             *)
(***************************************************************************)
main_users ==
    [x \in {TaroYamada} |->
        User(TaroYamada, sha256_hexdigest(TaroPassword), TaroNickname, TaroComment)]

\* HTTPBasic() answers a request without a usable Authorization header with
\* 401 itself; otherwise the authenticator returns the user id, or a
\* JSONResponse object that the handler receives as `authenticated_user`.
main_authenticate_user(us, cred) ==
    IF cred.username = None THEN AuthRaised("Not authenticated")
    ELSE IF cred.username \notin DOMAIN us
            \/ ~compare_digest(us[cred.username].password, sha256_hexdigest(cred.password))
    THEN AuthJSONResponse(401)
    ELSE AuthStr(cred.username)

\* SignupRequest: 0 when the body is accepted, 400 when a field_validator
\* raises HTTPException, 422 when only Field constraints fail.  The password
\* validator runs before the length constraint (mode="before"); the others
\* run after it, on a field that passed.
main_SignupRequest(body) ==
    LET id == body.user_id
        pw == body.password
        idLen == id # None /\ LenIn(id, UserIdMinLen, UserIdMaxLen)
        pwLen == pw # None /\ LenIn(pw, PasswordMinLen, PasswordMaxLen)
        nickLen == body.nickname = None \/ Len(body.nickname) <= NicknameMaxLen
        comLen == body.comment = None \/ Len(body.comment) <= CommentMaxLen
        raises ==
            \/ idLen /\ ~IsAlnum(id)
            \/ pw # None /\ ~IsStrong(pw)
            \/ body.nickname # None /\ nickLen /\ ~NoControl(body.nickname)
            \/ body.comment # None /\ comLen /\ ~NoControl(body.comment)
    IN IF raises THEN 400
       ELSE IF idLen /\ pwLen /\ nickLen /\ comLen THEN 0 ELSE 422

\* UserUpdateRequest: as SignupRequest, 0, 400 or 422.
main_UserUpdateRequest(body) ==
    LET nickLen == body.nickname = None \/ Len(body.nickname) <= NicknameMaxLen
        comLen == body.comment = None \/ Len(body.comment) <= CommentMaxLen
        raises ==
            \/ body.nickname # None /\ nickLen /\ ~NoControl(body.nickname)
            \/ body.comment # None /\ comLen /\ ~NoControl(body.comment)
    IN IF raises THEN 400 ELSE IF nickLen /\ comLen THEN 0 ELSE 422

main_get_user(us, req) ==
    LET auth == main_authenticate_user(us, req.cred) IN
    IF auth.kind = "raised" THEN Result(us, auth, auth.status, auth.msg, NoOut)
    ELSE IF req.path \notin DOMAIN us THEN Result(us, auth, 404, "User not found", NoOut)
    ELSE IF PyNe(req.path, auth) THEN Result(us, auth, 403, "Permission denied", NoOut)
    ELSE Result(us, auth, 200, "User details by user_id",
                UserOut(us[req.path].user_id, us[req.path].nickname, us[req.path].comment))

main_signup(us, req) ==
    LET b == req.body
        auth == main_authenticate_user(us, req.cred)
        v == main_SignupRequest(b)
    IN
    IF auth.kind = "raised" THEN Result(us, auth, auth.status, auth.msg, NoOut)
    ELSE IF v = 400 THEN Result(us, auth, 400, "Account creation failed", NoOut)
    ELSE IF v = 422 THEN Unprocessable(us, auth)
    ELSE IF b.user_id \in DOMAIN us
    THEN Result(us, auth, 400, "already same user_id is used", NoOut)
    ELSE IF ~Truthy(b.user_id) \/ ~Truthy(b.password)
    THEN Result(us, auth, 400, "required user_id and password", NoOut)
    ELSE Result(Put(us, b.user_id,
                    User(b.user_id, sha256_hexdigest(b.password),
                         PyOr(b.nickname, b.user_id), PyOr(b.comment, EmptyStr))),
                auth, 200, "Account successfully created",
                UserOut(b.user_id, PyOr(b.nickname, b.user_id), None))

\* The fields are written before the immutable-field check.
main_update_user(us, req) ==
    LET b == req.body
        auth == main_authenticate_user(us, req.cred)
        v == main_UserUpdateRequest(b)
        id == req.path
        us1 == IF b.nickname # None THEN [us EXCEPT ![id].nickname = b.nickname] ELSE us
        us2 == IF b.comment # None THEN [us1 EXCEPT ![id].comment = b.comment] ELSE us1
    IN
    IF auth.kind = "raised" THEN Result(us, auth, auth.status, auth.msg, NoOut)
    ELSE IF v = 400 THEN Result(us, auth, 400, "User update failed", NoOut)
    ELSE IF v = 422 THEN Unprocessable(us, auth)
    ELSE IF id \notin DOMAIN us THEN Result(us, auth, 404, "No User found", NoOut)
    ELSE IF PyNe(id, auth) THEN Result(us, auth, 403, "Permission denied", NoOut)
    ELSE IF b.user_id # None \/ b.password # None
    THEN Result(us2, auth, 400, "not updatable user_id and password", NoOut)
    ELSE Result(us2, auth, 200, "User updated successfully",
                UserOut(id, us2[id].nickname, us2[id].comment))

\* Mutation of close_account: no test `authenticated_user not in users`.
main_close_account_no_membership_test(us, req) ==
    LET auth == main_authenticate_user(us, req.cred) IN
    IF auth.kind = "raised" THEN Result(us, auth, auth.status, auth.msg, NoOut)
    ELSE IF ~PyIn(auth, us) THEN ServerError(us, auth)
    ELSE Result(Del(us, auth.val), auth, 200, "Account deleted successfully", NoOut)

main_close_account(us, req) ==
    LET auth == main_authenticate_user(us, req.cred) IN
    IF auth.kind = "raised" THEN Result(us, auth, auth.status, auth.msg, NoOut)
    ELSE IF ~PyIn(auth, us) THEN Result(us, auth, 404, "User not found", NoOut)
    ELSE Result(Del(us, auth.val), auth, 200, "Account deleted successfully", NoOut)

(***************************************************************************)
(* src/main4.py                                                            *)
(***************************************************************************)
main4_users ==
    [x \in {TaroYamada} |->
        DictUser(sha256_hexdigest(TaroPassword), TaroNickname, TaroComment)]

main4_SignupRequest(body) ==
    /\ body.user_id # None
    /\ LenIn(body.user_id, UserIdMinLen, UserIdMaxLen)
    /\ IsAlnum(body.user_id)
    /\ body.password # None
    /\ LenIn(body.password, PasswordMinLen, PasswordMaxLen)
    /\ IsGraph(body.password)
    /\ OptTextOk(body.nickname, NicknameMaxLen)
    /\ OptTextOk(body.comment, CommentMaxLen)

main4_UpdateRequest(body) ==
    /\ OptTextOk(body.nickname, NicknameMaxLen)
    /\ OptTextOk(body.comment, CommentMaxLen)

main4_PasswordUpdateRequest(body) ==
    /\ body.current_password # None
    /\ LenIn(body.current_password, PasswordMinLen, PasswordMaxLen)
    /\ IsGraph(body.current_password)
    /\ body.new_password # None
    /\ LenIn(body.new_password, PasswordMinLen, PasswordMaxLen)
    /\ IsGraph(body.new_password)

\* The authenticator raises: the handler runs only with a user id.
main4_authenticate_user(us, cred) ==
    IF cred.username = None THEN AuthRaised("Not authenticated")
    ELSE IF cred.username \notin DOMAIN us
            \/ ~compare_digest(us[cred.username].password, sha256_hexdigest(cred.password))
    THEN AuthRaised("Invalid credentials")
    ELSE AuthStr(cred.username)

main4_get_any_user(us, req) ==
    LET auth == main4_authenticate_user(us, req.cred) IN
    IF auth.kind = "raised" THEN Result(us, auth, auth.status, auth.msg, NoOut)
    ELSE IF req.path \notin DOMAIN us THEN Result(us, auth, 404, "User not found", NoOut)
    ELSE Result(us, auth, 200, "user_data",
                UserOut(None, us[req.path].nickname, us[req.path].comment))

main4_signup(us, req) ==
    LET b == req.body IN
    IF ~main4_SignupRequest(b) THEN Unprocessable(us, NoAuth)
    ELSE IF b.user_id \in DOMAIN us
    THEN Result(us, NoAuth, 400, "User ID already exists", NoOut)
    ELSE Result(Put(us, b.user_id,
                    DictUser(sha256_hexdigest(b.password),
                             PyOr(b.nickname, EmptyStr), PyOr(b.comment, EmptyStr))),
                NoAuth, 200, "Account successfully created",
                UserOut(b.user_id, b.nickname, b.comment))

\* Mutation of update_user: a field the body does not carry is reset to "".
main4_update_user_resets_absent_field(us, req) ==
    LET b == req.body
        auth == main4_authenticate_user(us, req.cred)
        id == req.path
        us2 == [us EXCEPT ![id].nickname = PyOr(b.nickname, EmptyStr),
                          ![id].comment = PyOr(b.comment, EmptyStr)]
    IN
    IF auth.kind = "raised" THEN Result(us, auth, auth.status, auth.msg, NoOut)
    ELSE IF ~main4_UpdateRequest(b) THEN Unprocessable(us, auth)
    ELSE IF id \notin DOMAIN us THEN Result(us, auth, 404, "User not found", NoOut)
    ELSE IF PyNe(id, auth) THEN Result(us, auth, 403, "No Permission for Update", NoOut)
    ELSE Result(us2, auth, 200, "User updated successfully",
                UserOut(None, b.nickname, b.comment))

main4_update_user(us, req) ==
    LET b == req.body
        auth == main4_authenticate_user(us, req.cred)
        id == req.path
        us1 == IF b.nickname # None THEN [us EXCEPT ![id].nickname = b.nickname] ELSE us
        us2 == IF b.comment # None THEN [us1 EXCEPT ![id].comment = b.comment] ELSE us1
    IN
    IF auth.kind = "raised" THEN Result(us, auth, auth.status, auth.msg, NoOut)
    ELSE IF ~main4_UpdateRequest(b) THEN Unprocessable(us, auth)
    ELSE IF id \notin DOMAIN us THEN Result(us, auth, 404, "User not found", NoOut)
    ELSE IF PyNe(id, auth) THEN Result(us, auth, 403, "No Permission for Update", NoOut)
    ELSE Result(us2, auth, 200, "User updated successfully",
                UserOut(None, b.nickname, b.comment))

main4_update_password(us, req) ==
    LET b == req.body
        auth == main4_authenticate_user(us, req.cred)
        id == req.path
    IN
    IF auth.kind = "raised" THEN Result(us, auth, auth.status, auth.msg, NoOut)
    ELSE IF ~main4_PasswordUpdateRequest(b) THEN Unprocessable(us, auth)
    ELSE IF id \notin DOMAIN us THEN Result(us, auth, 404, "User not found", NoOut)
    ELSE IF PyNe(id, auth) THEN Result(us, auth, 403, "Permission denied", NoOut)
    ELSE IF ~compare_digest(us[id].password, sha256_hexdigest(b.current_password))
    THEN Result(us, auth, 401, "Current password is incorrect", NoOut)
    ELSE Result([us EXCEPT ![id].password = sha256_hexdigest(b.new_password)],
                auth, 200, "Password updated successfully", NoOut)

main4_close_account(us, req) ==
    LET auth == main4_authenticate_user(us, req.cred) IN
    IF auth.kind = "raised" THEN Result(us, auth, auth.status, auth.msg, NoOut)
    ELSE IF auth.val \notin DOMAIN us THEN ServerError(us, auth)
    ELSE Result(Del(us, auth.val), auth, 200, "Account deleted successfully", NoOut)

(***************************************************************************)
(* src/main5.py                                                            *)
(***************************************************************************)
main5_users ==
    [x \in {TaroYamada} |->
        User(TaroYamada, sha256_hexdigest(TaroPassword), TaroNickname, TaroComment)]

\* SignupRequest: every field Optional, lengths only.
main5_SignupRequest(body) ==
    /\ body.user_id = None \/ LenIn(body.user_id, UserIdMinLen, UserIdMaxLen)
    /\ body.password = None \/ LenIn(body.password, PasswordMinLen, PasswordMaxLen)
    /\ body.nickname = None \/ Len(body.nickname) <= NicknameMaxLen
    /\ body.comment = None \/ Len(body.comment) <= CommentMaxLen

\* UserUpdateRequest: 0 when accepted, 400 when the field_validator raises
\* HTTPException, 422 when only a Field constraint fails.
main5_UserUpdateRequest(body) ==
    LET nickLen == body.nickname = None \/ Len(body.nickname) <= NicknameMaxLen
        comLen == body.comment = None \/ Len(body.comment) <= CommentMaxLen
        raises ==
            \/ body.nickname # None /\ nickLen /\ ~NoControl(body.nickname)
            \/ body.comment # None /\ comLen /\ ~NoControl(body.comment)
    IN IF raises THEN 400 ELSE IF nickLen /\ comLen THEN 0 ELSE 422

main5_authenticate_user(us, cred) ==
    IF cred.username = None THEN AuthRaised("Not authenticated")
    ELSE IF cred.username \notin DOMAIN us
            \/ ~compare_digest(us[cred.username].password, sha256_hexdigest(cred.password))
    THEN AuthJSONResponse(401)
    ELSE AuthStr(cred.username)

main5_get_user(us, req) ==
    LET auth == main5_authenticate_user(us, req.cred) IN
    IF auth.kind = "raised" THEN Result(us, auth, auth.status, auth.msg, NoOut)
    ELSE IF auth.kind = "JSONResponse" THEN Result(us, auth, auth.status, auth.msg, NoOut)
    ELSE IF req.path \notin DOMAIN us THEN Result(us, auth, 404, "User not found", NoOut)
    ELSE IF PyNe(req.path, auth) THEN Result(us, auth, 403, "Permission denied", NoOut)
    ELSE Result(us, auth, 200, "User details by user_id",
                UserOut(us[req.path].user_id, us[req.path].nickname, us[req.path].comment))

main5_signup(us, req) ==
    LET b == req.body IN
    IF ~main5_SignupRequest(b) THEN Unprocessable(us, NoAuth)
    ELSE IF ~Truthy(b.user_id) \/ ~Truthy(b.password)
    THEN Result(us, NoAuth, 400, "required user_id and password", NoOut)
    ELSE IF b.user_id \in DOMAIN us
    THEN Result(us, NoAuth, 400, "already same user_id is used", NoOut)
    ELSE Result(Put(us, b.user_id,
                    User(b.user_id, sha256_hexdigest(b.password),
                         PyOr(b.nickname, b.user_id), PyOr(b.comment, EmptyStr))),
                NoAuth, 200, "Account successfully created",
                UserOut(b.user_id, PyOr(b.nickname, b.user_id), None))

\* Mutation of update_user: a password in the body is hashed and stored.
main5_update_user_writes_password(us, req) ==
    LET b == req.body
        auth == main5_authenticate_user(us, req.cred)
        v == main5_UserUpdateRequest(b)
        id == req.path
        us1 == IF b.nickname # None THEN [us EXCEPT ![id].nickname = b.nickname] ELSE us
        us2 == IF b.comment # None THEN [us1 EXCEPT ![id].comment = b.comment] ELSE us1
        us3 == IF b.password # None
               THEN [us2 EXCEPT ![id].password = sha256_hexdigest(b.password)] ELSE us2
    IN
    IF auth.kind = "raised" THEN Result(us, auth, auth.status, auth.msg, NoOut)
    ELSE IF v = 400 THEN Result(us, auth, 400, "User update failed", NoOut)
    ELSE IF v = 422 THEN Unprocessable(us, auth)
    ELSE IF id \notin DOMAIN us THEN Result(us, auth, 404, "No User found", NoOut)
    ELSE IF PyNe(id, auth) THEN Result(us, auth, 403, "Permission denied", NoOut)
    ELSE IF b.user_id # None \/ b.password # None
    THEN Result(us3, auth, 400, "not updatable user_id and password", NoOut)
    ELSE Result(us3, auth, 200, "User updated successfully",
                UserOut(id, us3[id].nickname, us3[id].comment))

\* The fields are written before the immutable-field check, and the handler
\* does not test for a JSONResponse.
main5_update_user(us, req) ==
    LET b == req.body
        auth == main5_authenticate_user(us, req.cred)
        v == main5_UserUpdateRequest(b)
        id == req.path
        us1 == IF b.nickname # None THEN [us EXCEPT ![id].nickname = b.nickname] ELSE us
        us2 == IF b.comment # None THEN [us1 EXCEPT ![id].comment = b.comment] ELSE us1
    IN
    IF auth.kind = "raised" THEN Result(us, auth, auth.status, auth.msg, NoOut)
    ELSE IF v = 400 THEN Result(us, auth, 400, "User update failed", NoOut)
    ELSE IF v = 422 THEN Unprocessable(us, auth)
    ELSE IF id \notin DOMAIN us THEN Result(us, auth, 404, "No User found", NoOut)
    ELSE IF PyNe(id, auth) THEN Result(us, auth, 403, "Permission denied", NoOut)
    ELSE IF b.user_id # None \/ b.password # None
    THEN Result(us2, auth, 400, "not updatable user_id and password", NoOut)
    ELSE Result(us2, auth, 200, "User updated successfully",
                UserOut(id, us2[id].nickname, us2[id].comment))

main5_close_account(us, req) ==
    LET auth == main5_authenticate_user(us, req.cred) IN
    IF auth.kind = "raised" THEN Result(us, auth, auth.status, auth.msg, NoOut)
    ELSE IF auth.kind = "JSONResponse" THEN Result(us, auth, auth.status, auth.msg, NoOut)
    ELSE IF ~PyIn(auth, us) THEN Result(us, auth, 404, "User not found", NoOut)
    ELSE Result(Del(us, auth.val), auth, 200, "Account deleted successfully", NoOut)

(***************************************************************************)
(* src/trial-myapp.py: no request model, no authentication.                *)
(***************************************************************************)
myapp_users ==
    [x \in {TaroYamada} |-> DictUser(TaroPassword, TaroNickname, TaroComment)]

myapp_signup(us, req) ==
    LET b == req.body IN
    IF b.user_id \in DOMAIN us THEN Result(us, NoAuth, 400, "User already exists", NoOut)
    ELSE Result(Put(us, b.user_id, DictUser(b.password, b.nickname, b.comment)),
                NoAuth, 201, "User created successfully", NoOut)

myapp_get_user(us, req) ==
    IF req.path \notin DOMAIN us THEN Result(us, NoAuth, 404, "User not found", NoOut)
    ELSE Result(us, NoAuth, 200, "user",
                UserOut(req.path, us[req.path].nickname, us[req.path].comment))

myapp_update_user(us, req) ==
    LET b == req.body
        id == req.path
        us1 == IF b.nickname # None THEN [us EXCEPT ![id].nickname = b.nickname] ELSE us
        us2 == IF b.comment # None THEN [us1 EXCEPT ![id].comment = b.comment] ELSE us1
    IN
    IF id \notin DOMAIN us THEN Result(us, NoAuth, 404, "User not found", NoOut)
    ELSE Result(us2, NoAuth, 200, "User updated successfully", NoOut)

myapp_close_account(us, req) ==
    LET id == req.body.user_id IN
    IF id \notin DOMAIN us THEN Result(us, NoAuth, 404, "User not found", NoOut)
    ELSE Result(Del(us, id), NoAuth, 200, "User account deleted successfully", NoOut)

(***************************************************************************)
(* The requests the model sends.                                           *)
(***************************************************************************)
IdPool == {TaroYamada, JohnDoe}

SecretPool == {TaroPassword, StrongPassword}

CredPool == {NoCred} \cup {Cred(u, p) : u \in IdPool, p \in SecretPool}

\* Identifiers that break the identifier rule, tried on POST /signup only.
BadIdPool == {JohnUnderscore, ShortId}

SignupBodies ==
    {Body(id, pw, nick, com, None, None) :
        id \in IdPool, pw \in {StrongPassword, ShortPassword},
        nick \in {None, EmptyStr, Johnny}, com \in {None, Hello}}
    \cup {Body(id, StrongPassword, None, None, None, None) : id \in BadIdPool}

UpdateBodies ==
    {Body(None, None, None, None, None, None),
     Body(None, None, EmptyStr, None, None, None),
     Body(None, None, Johnny, None, None, None),
     Body(None, None, None, Hello, None, None),
     Body(None, None, Johnny, Hello, None, None),
     Body(None, StrongPassword, None, None, None, None),
     Body(JohnDoe, None, Johnny, None, None, None),
     Body(None, StrongPassword, None, Hello, None, None)}

PasswordBodies ==
    {Body(None, None, None, None, cur, new) : cur \in SecretPool, new \in SecretPool}

\* The Authorization headers tried on an endpoint: trial-myapp.py reads none,
\* and only main.py's signup declares the authenticator as a dependency.
Creds(v, op) ==
    IF v = "myapp" THEN {NoCred}
    ELSE IF op = "signup"
    THEN (IF v = "main" THEN {NoCred, Cred(TaroYamada, TaroPassword)} ELSE {NoCred})
    ELSE CredPool

(***************************************************************************)
(* Dispatch of a request to the variant's handler.                         *)
(***************************************************************************)
signup(v, us, req) ==
    CASE v = "app" -> app_signup(us, req)
      [] v = "main" -> main_signup(us, req)
      [] v = "main4" -> main4_signup(us, req)
      [] v = "main5" -> main5_signup(us, req)
      [] v = "myapp" -> myapp_signup(us, req)

get_user(v, us, req) ==
    CASE v = "app" -> app_get_user(us, req)
      [] v = "main" -> main_get_user(us, req)
      [] v = "main4" -> main4_get_any_user(us, req)
      [] v = "main5" -> main5_get_user(us, req)
      [] v = "myapp" -> myapp_get_user(us, req)

update_user(v, us, req) ==
    CASE v = "app" -> app_update_user(us, req)
      [] v = "main" -> main_update_user(us, req)
      [] v = "main4" -> main4_update_user(us, req)
      [] v = "main5" -> main5_update_user(us, req)
      [] v = "myapp" -> myapp_update_user(us, req)

close_account(v, us, req) ==
    CASE v = "app" -> app_close_account(us, req)
      [] v = "main" -> main_close_account(us, req)
      [] v = "main4" -> main4_close_account(us, req)
      [] v = "main5" -> main5_close_account(us, req)
      [] v = "myapp" -> myapp_close_account(us, req)

seed_users(v) ==
    CASE v = "app" -> app_users
      [] v = "main" -> main_users
      [] v = "main4" -> main4_users
      [] v = "main5" -> main5_users
      [] v = "myapp" -> myapp_users

(***************************************************************************)
(* The sequential specification: one request at a time, each handler run   *)
(* to completion.  `last` is the request just answered, with the           *)
(* dictionary as it was before it (`before`), what the authenticator gave  *)
(* the handler (`auth`) and the response.                                  *)
(***************************************************************************)
Exchange(op, req, before, r) ==
    [op |-> op, req |-> req, before |-> before, auth |-> r.auth,
     status |-> r.status, msg |-> r.msg, out |-> r.out]

NoExchange(us) ==
    [op |-> "none", req |-> Request(None, NoCred, NoBody), before |-> us,
     auth |-> NoAuth, status |-> 0, msg |-> "none", out |-> NoOut]

\* No request thread is running.
NoThreads == << >>

\* The account POST /close acts on: the authenticated user, or in
\* trial-myapp.py the user_id of the body.
CloseTarget(v, req) == IF v = "myapp" THEN req.body.user_id ELSE req.cred.username

\* History of the run, kept for the properties only.  `created` maps each
\* account that a signup created, and that no request has changed or removed
\* since, to the nickname and comment fields of that signup.  `closed` holds
\* the requests whose POST /close removed an account that no signup has
\* created again since.
Created(op, req, us, r) ==
    LET kept == {i \in DOMAIN created : i \in DOMAIN r.users /\ r.users[i] = us[i]}
        id == req.body.user_id
        new == op = "signup" /\ r.status \in {200, 201}
    IN [i \in kept \cup (IF new THEN {id} ELSE {}) |->
            IF new /\ i = id
            THEN [nickname |-> req.body.nickname, comment |-> req.body.comment]
            ELSE created[i]]

Closed(op, req, us, r) ==
    LET gone == {i \in DOMAIN us : i \notin DOMAIN r.users}
        back == {i \in DOMAIN r.users : i \notin DOMAIN us}
    IN {k \in closed : CloseTarget(variant, k) \notin back}
       \cup (IF op = "close" /\ r.status = 200 /\ CloseTarget(variant, req) \in gone
             THEN {req} ELSE {})

Init ==
    /\ variant \in Variants
    /\ users = seed_users(variant)
    /\ last = NoExchange(users)
    /\ nreq = 0
    /\ created = [i \in {} |-> [nickname |-> None, comment |-> None]]
    /\ closed = {}
    /\ thr = NoThreads

Answer(op, req, r) ==
    /\ nreq < MaxRequests
    /\ users' = r.users
    /\ last' = Exchange(op, req, users, r)
    /\ nreq' = nreq + 1
    /\ created' = Created(op, req, users, r)
    /\ closed' = Closed(op, req, users, r)
    /\ UNCHANGED <<variant, thr>>

\* POST /signup
Signup ==
    \E c \in Creds(variant, "signup"), b \in SignupBodies :
        LET req == Request(None, c, b) IN
        Answer("signup", req, signup(variant, users, req))

\* GET /users/{user_id}
GetUser ==
    \E p \in IdPool, c \in Creds(variant, "get") :
        LET req == Request(p, c, NoBody) IN
        Answer("get", req, get_user(variant, users, req))

\* PATCH /users/{user_id}
UpdateUser ==
    \E p \in IdPool, c \in Creds(variant, "update"), b \in UpdateBodies :
        LET req == Request(p, c, b) IN
        Answer("update", req, update_user(variant, users, req))

\* PATCH /users/{user_id}/password, an endpoint of main4.py alone
UpdatePassword ==
    /\ variant = "main4"
    /\ \E p \in IdPool, c \in Creds(variant, "update_password"), b \in PasswordBodies :
        LET req == Request(p, c, b) IN
        Answer("update_password", req, main4_update_password(users, req))

\* POST /close; trial-myapp.py takes the user id from the body
CloseAccount ==
    \E c \in Creds(variant, "close"),
       b \in (IF variant = "myapp"
              THEN {Body(id, None, None, None, None, None) : id \in IdPool}
              ELSE {NoBody}) :
        LET req == Request(None, c, b) IN
        Answer("close", req, close_account(variant, users, req))

Next == Signup \/ GetUser \/ UpdateUser \/ UpdatePassword \/ CloseAccount

Spec == Init /\ [][Next]_vars

(***************************************************************************)
(* The concurrent specification, for the two variants whose handlers run   *)
(* on threads (app.py: synchronous FastAPI handlers, run on the thread     *)
(* pool; trial-myapp.py: Flask).  No handler takes a lock, so a thread may *)
(* be preempted between any two statements that touch `users`; the steps   *)
(* below are the stretches of a handler between two such statements.       *)
(*                                                                         *)
(* A thread's locals: `user_id` (auth_user_id in app.py, user_id in        *)
(* trial-myapp.py); `stale`, set when app.py's update_user holds in `user` *)
(* a dict that is no longer the one in `users` (it was deleted or replaced *)
(* after get_user_from_auth_header returned it); `overwrote`, set when a   *)
(* signup stored its record over one that was already there.               *)
(***************************************************************************)
Threads == 1 .. NumThreads

ConcVariants == {"app", "myapp"}

Idle ==
    [pc |-> "idle", op |-> "none", req |-> Request(None, NoCred, NoBody),
     user_id |-> None, stale |-> FALSE, overwrote |-> FALSE, status |-> 0]

\* The requests the threads send: one signup, one update and one close for
\* each identifier, with the owner's credentials.
ConcRequests(v, op) ==
    {Request(IF op = "update" THEN id ELSE None,
             IF v = "myapp" \/ op = "signup" THEN NoCred
             ELSE Cred(id, StrongPassword),
             IF op = "signup" THEN Body(id, StrongPassword, None, None, None, None)
             ELSE IF op = "update" THEN Body(None, None, Johnny, Hello, None, None)
             ELSE IF v = "myapp" THEN Body(id, None, None, None, None, None)
             ELSE NoBody) : id \in IdPool}

InitConc ==
    /\ variant \in ConcVariants
    /\ users = seed_users(variant)
    /\ last = NoExchange(users)
    /\ nreq = 0
    /\ created = [i \in {} |-> [nickname |-> None, comment |-> None]]
    /\ closed = {}
    /\ thr = [t \in Threads |-> Idle]

Done(t, status) == [thr EXCEPT ![t].pc = "done", ![t].status = status]

\* What the threads' steps leave alone: the sequential run's bookkeeping.
ConcFrame == UNCHANGED <<variant, last, nreq, created, closed>>

\* The threads whose `user` dict stops being users[id] when thread t deletes
\* or replaces users[id].
Holders(t, id) ==
    {u \in Threads \ {t} :
        /\ variant = "app"
        /\ thr[u].pc \in {"update_nickname", "update_comment"}
        /\ thr[u].user_id = id}

\* A request arrives and is given to a free thread.
Start ==
    /\ ConcFrame
    /\ \E t \in Threads, op \in {"signup", "update", "close"} :
        \E req \in ConcRequests(variant, op) :
            /\ thr[t].pc = "idle"
            /\ thr' = [thr EXCEPT ![t].pc = op \o "_check", ![t].op = op, ![t].req = req]
            /\ UNCHANGED users

\* signup up to its test `user_id in users` (app.py 22-24, trial-myapp.py 17-24)
SignupCheck ==
    /\ ConcFrame
    /\ \E t \in Threads :
        LET b == thr[t].req.body IN
            /\ thr[t].pc = "signup_check"
            /\ thr' = IF variant = "app" /\ ~app_SignupRequest(b) THEN Done(t, 422)
                      ELSE IF b.user_id \in DOMAIN users THEN Done(t, 400)
                      ELSE [thr EXCEPT ![t].pc = "signup_store"]
            /\ UNCHANGED users

\* signup's assignment users[user_id] = {...} and its response
SignupStore ==
    /\ ConcFrame
    /\ \E t \in Threads :
        LET b == thr[t].req.body
            rec == IF variant = "app" THEN DictUser(b.password, b.user_id, EmptyStr)
                   ELSE DictUser(b.password, b.nickname, b.comment)
        IN
            /\ thr[t].pc = "signup_store"
            /\ users' = Put(users, b.user_id, rec)
            /\ thr' = [u \in Threads |->
                        IF u = t
                        THEN [thr[t] EXCEPT !.pc = "done",
                                            !.status = IF variant = "app" THEN 200 ELSE 201,
                                            !.overwrote = b.user_id \in DOMAIN users]
                        ELSE IF u \in Holders(t, b.user_id)
                        THEN [thr[u] EXCEPT !.stale = TRUE]
                        ELSE thr[u]]

\* close_account up to its `del`: authentication in app.py (117-122), the
\* test `user_id not in users` in trial-myapp.py (62-67)
CloseCheck ==
    /\ ConcFrame
    /\ \E t \in Threads :
        LET req == thr[t].req
            auth == app_get_user_from_auth_header(users, req.cred)
        IN
            /\ thr[t].pc = "close_check"
            /\ thr' = IF variant = "app"
                      THEN (IF auth.kind # "str" THEN Done(t, 401)
                            ELSE [thr EXCEPT ![t].pc = "close_del", ![t].user_id = auth.val])
                      ELSE (IF req.body.user_id \notin DOMAIN users THEN Done(t, 404)
                            ELSE [thr EXCEPT ![t].pc = "close_del",
                                             ![t].user_id = req.body.user_id])
            /\ UNCHANGED users

\* del users[user_id]: KeyError, answered 500, when the key is gone
CloseDel ==
    /\ ConcFrame
    /\ \E t \in Threads :
        LET id == thr[t].user_id IN
            /\ thr[t].pc = "close_del"
            /\ IF id \notin DOMAIN users
               THEN thr' = Done(t, 500) /\ UNCHANGED users
               ELSE /\ users' = Del(users, id)
                    /\ thr' = [u \in Threads |->
                                IF u = t THEN [thr[t] EXCEPT !.pc = "done", !.status = 200]
                                ELSE IF u \in Holders(t, id)
                                THEN [thr[u] EXCEPT !.stale = TRUE]
                                ELSE thr[u]]

\* update_user up to its first write: authentication and the tests on the
\* body in app.py (81-97), the test `user_id not in users` in
\* trial-myapp.py (48-52)
UpdateCheck ==
    /\ ConcFrame
    /\ \E t \in Threads :
        LET req == thr[t].req
            b == req.body
            auth == app_get_user_from_auth_header(users, req.cred)
            go(id) == [thr EXCEPT ![t].pc = "update_nickname", ![t].user_id = id]
        IN
            /\ thr[t].pc = "update_check"
            /\ thr' = IF variant = "app"
                      THEN (IF ~app_UpdateRequest(b) THEN Done(t, 422)
                            ELSE IF auth.kind # "str" THEN Done(t, 401)
                            ELSE IF auth.val # req.path THEN Done(t, 403)
                            ELSE IF b.nickname = None /\ b.comment = None THEN Done(t, 400)
                            ELSE go(auth.val))
                      ELSE (IF req.path \notin DOMAIN users THEN Done(t, 404)
                            ELSE go(req.path))
            /\ UNCHANGED users

\* One field of the record is written.  app.py writes into the dict `user`
\* it holds, which changes `users` only while that dict is still in it;
\* trial-myapp.py looks users[user_id] up again and gets KeyError when the
\* key is gone.
WriteField(t, f, v, nextpc, status) ==
    LET id == thr[t].user_id
        on == [thr EXCEPT ![t].pc = nextpc, ![t].status = status]
    IN
    IF v = None THEN thr' = on /\ UNCHANGED users
    ELSE IF variant = "app" /\ thr[t].stale THEN thr' = on /\ UNCHANGED users
    ELSE IF id \notin DOMAIN users THEN thr' = Done(t, 500) /\ UNCHANGED users
    ELSE /\ users' = [users EXCEPT ![id][f] = v]
         /\ thr' = on

\* the nickname assignment (app.py 100-101, trial-myapp.py 53-54)
UpdateNickname ==
    /\ ConcFrame
    /\ \E t \in Threads :
        LET n == thr[t].req.body.nickname IN
            /\ thr[t].pc = "update_nickname"
            /\ WriteField(t, "nickname",
                          IF variant = "app" /\ n = EmptyStr THEN thr[t].user_id ELSE n,
                          "update_comment", 0)

\* the comment assignment and the response (app.py 102-113,
\* trial-myapp.py 55-58)
UpdateComment ==
    /\ ConcFrame
    /\ \E t \in Threads :
        /\ thr[t].pc = "update_comment"
        /\ WriteField(t, "comment", thr[t].req.body.comment, "done", 200)

NextConc ==
    \/ Start
    \/ SignupCheck
    \/ SignupStore
    \/ CloseCheck
    \/ CloseDel
    \/ UpdateCheck
    \/ UpdateNickname
    \/ UpdateComment

SpecConc == InitConc /\ [][NextConc]_vars

(***************************************************************************)
(* Vocabulary of the properties.                                           *)
(***************************************************************************)
\* The stored password field `stored` is the one a request's secret matches:
\* app.py keeps and compares the secret itself, the others its digest.
SecretMatches(v, stored, secret) ==
    IF v = "app" THEN stored = secret ELSE stored = sha256_hexdigest(secret)

\* The credentials `cred` authenticate as account `id` of dictionary `us`.
AuthenticatesAs(v, us, cred, id) ==
    /\ cred.username = id
    /\ id \in DOMAIN us
    /\ SecretMatches(v, us[id].password, cred.password)

\* The credentials name an identifier, and authenticate as no account.
BadCredentials(v, us, cred) ==
    /\ cred.username # None
    /\ ~AuthenticatesAs(v, us, cred, cred.username)

\* The last request changed or removed the record of `id`.
Changed(id) == id \notin DOMAIN users \/ users[id] # last.before[id]

\* The last request was sent by the owner of the account in its path.
ByOwner == AuthenticatesAs(variant, last.before, last.req.cred, last.req.path)

\* The last request is a POST /close that repeats one which removed the
\* account, the account being still absent.
RepeatedClose ==
    /\ last.op = "close"
    /\ last.req \in closed
    /\ CloseTarget(variant, last.req) \notin DOMAIN last.before

(***************************************************************************)
(* C1.  In each Basic-auth variant a GET /users/{id} returns the nickname  *)
(* and comment of account id only to a request whose credentials           *)
(* authenticate as that same id.  main4.py's get_any_user has no ownership *)
(* check, so this fails there.                                             *)
(***************************************************************************)
C1_ReadOnlyBySelf ==
    (variant \in BasicAuthVariants /\ last.op = "get" /\ last.status = 200)
        => ByOwner

(***************************************************************************)
(* C2, as stated.  In each Basic-auth variant an existing record is        *)
(* changed or removed only by a PATCH /users/{id} or POST /close whose     *)
(* credentials authenticate as that account's own id.                      *)
(***************************************************************************)
C2_OnlyUpdateOrCloseByOwner ==
    variant \in BasicAuthVariants =>
        \A id \in DOMAIN last.before :
            Changed(id) =>
                /\ AuthenticatesAs(variant, last.before, last.req.cred, id)
                /\ \/ last.op = "update" /\ last.req.path = id
                   \/ last.op = "close"

(***************************************************************************)
(* C2, amended.  In each Basic-auth variant an existing record is changed  *)
(* or removed only by a PATCH /users/{id}, a PATCH /users/{id}/password    *)
(* (main4.py) or a POST /close whose credentials authenticate as that      *)
(* account's own id; a request whose credentials are missing, unknown, not *)
(* matching or those of another account leaves the record as it was, also  *)
(* when the authenticator hands the handler a JSONResponse.                *)
(***************************************************************************)
C2_OnlyOwnerChangesRecord ==
    variant \in BasicAuthVariants =>
        \A id \in DOMAIN last.before :
            Changed(id) =>
                /\ AuthenticatesAs(variant, last.before, last.req.cred, id)
                /\ \/ last.op \in {"update", "update_password"} /\ last.req.path = id
                   \/ last.op = "close"

\* A PATCH that carries a nickname for an existing account, sent with the
\* wrong secret: the handler got a JSONResponse and the record is unchanged.
C2_Witness ==
    /\ variant \in {"main", "main5"}
    /\ last.op = "update"
    /\ last.req.path \in DOMAIN last.before
    /\ last.req.cred.username = last.req.path
    /\ last.req.body.nickname = Johnny
    /\ last.before[last.req.path].nickname # Johnny
    /\ last.auth.kind = "JSONResponse"
    /\ users = last.before

(***************************************************************************)
(* C3.  In each Basic-auth variant a GET, PATCH or POST /close whose       *)
(* credentials name an absent identifier or carry a non-matching secret is *)
(* answered 401 "Authentication Failed" (main4.py: "Invalid credentials"), *)
(* whatever the id in the path.  main.py and main5.py answer 403 or 404.   *)
(***************************************************************************)
C3_BadCredentialsGet401 ==
    (/\ variant \in BasicAuthVariants
     /\ last.op \in {"get", "update", "close"}
     /\ BadCredentials(variant, last.before, last.req.cred))
        => /\ last.status = 401
           /\ last.msg \in {"Authentication Failed", "Invalid credentials"}

(***************************************************************************)
(* C4.  A POST /signup whose identifier is already in the dictionary never *)
(* succeeds and leaves the dictionary as it was; it is answered 400 when   *)
(* the request reaches the handler (it passes the variant's request model, *)
(* and in main.py carries an Authorization header).                        *)
(***************************************************************************)
SignupReachesHandler(v, req) ==
    CASE v = "app" -> app_SignupRequest(req.body)
      [] v = "main" -> req.cred.username # None /\ main_SignupRequest(req.body) = 0
      [] v = "main4" -> main4_SignupRequest(req.body)
      [] v = "main5" -> main5_SignupRequest(req.body)
      [] v = "myapp" -> TRUE

C4_DuplicateSignupRejected ==
    (last.op = "signup" /\ last.req.body.user_id \in DOMAIN last.before)
        => /\ users = last.before
           /\ last.status \notin {200, 201}
           /\ SignupReachesHandler(variant, last.req) => last.status = 400

\* A well-formed signup for an existing account whose stored nickname is not
\* the one the signup carries: answered 400, dictionary unchanged.
C4_Witness ==
    /\ last.op = "signup"
    /\ last.req.body.user_id \in DOMAIN last.before
    /\ SignupReachesHandler(variant, last.req)
    /\ last.req.body.nickname = Johnny
    /\ last.before[last.req.body.user_id].nickname # Johnny
    /\ last.status = 400
    /\ users = last.before

(***************************************************************************)
(* C5.  In each Basic-auth variant a PATCH /users/{id} by the owner whose  *)
(* body carries user_id or password is answered 400 and applies nothing.   *)
(* main.py and main5.py write nickname and comment before they answer 400; *)
(* app.py and main4.py drop the two fields and answer on the rest.         *)
(***************************************************************************)
C5_ImmutableFieldRejected ==
    (/\ variant \in BasicAuthVariants
     /\ last.op = "update"
     /\ ByOwner
     /\ (last.req.body.user_id # None \/ last.req.body.password # None))
        => /\ last.status = 400
           /\ users = last.before

(***************************************************************************)
(* C6.  In every variant the password field a signup stores is the SHA-256 *)
(* digest of the secret supplied, never the secret.  app.py and            *)
(* trial-myapp.py store the secret itself.                                 *)
(***************************************************************************)
C6_SignupStoresDigest ==
    (last.op = "signup" /\ last.status \in {200, 201})
        => /\ users[last.req.body.user_id].password
                = sha256_hexdigest(last.req.body.password)
           /\ users[last.req.body.user_id].password # last.req.body.password

(***************************************************************************)
(* C7.  With requests on threads (app.py, trial-myapp.py) a handler's test *)
(* and its write to `users` act as one step: no signup stores its record   *)
(* over one stored since its test, no handler ends in an unhandled         *)
(* KeyError (500), and no update answers 200 after writing into a record   *)
(* that was removed.  The handlers take no lock, so all three happen.      *)
(***************************************************************************)
C7_CheckAndWriteAtomic ==
    \A t \in Threads :
        thr[t].pc = "done" =>
            /\ thr[t].status # 500
            /\ ~(thr[t].op = "signup" /\ thr[t].status \in {200, 201} /\ thr[t].overwrote)
            /\ ~(thr[t].op = "update" /\ thr[t].status = 200 /\ thr[t].stale)

(***************************************************************************)
(* C8, as stated.  While an account exists its stored password field never *)
(* changes.  main4.py's PATCH /users/{id}/password changes it.             *)
(***************************************************************************)
C8_PasswordNeverChanges ==
    \A id \in DOMAIN last.before \cap DOMAIN users :
        users[id].password = last.before[id].password

(***************************************************************************)
(* C8, amended.  While an account exists its stored password field changes *)
(* only by main4.py's PATCH /users/{id}/password, sent by the owner with   *)
(* the current secret, and becomes the digest of the new one; no other     *)
(* operation of any variant writes it, the profile update included, also   *)
(* when its body carries a password.                                       *)
(***************************************************************************)
C8_PasswordChangesOnlyByPasswordUpdate ==
    \A id \in DOMAIN last.before \cap DOMAIN users :
        users[id].password # last.before[id].password =>
            /\ variant = "main4"
            /\ last.op = "update_password"
            /\ last.status = 200
            /\ last.req.path = id
            /\ AuthenticatesAs(variant, last.before, last.req.cred, id)
            /\ last.before[id].password = sha256_hexdigest(last.req.body.current_password)
            /\ users[id].password = sha256_hexdigest(last.req.body.new_password)

\* The owner's profile update carries a password and a comment: the comment
\* is written (main.py, main5.py), the password field is not.
C8_Witness ==
    /\ variant \in {"main", "main5"}
    /\ last.op = "update"
    /\ ByOwner
    /\ last.req.body.password # None
    /\ last.req.body.comment # None
    /\ users[last.req.path].comment = last.req.body.comment
    /\ users[last.req.path].password = last.before[last.req.path].password
    /\ ~SecretMatches(variant, users[last.req.path].password, last.req.body.password)

(***************************************************************************)
(* C9.  In each Basic-auth variant, after a signup of id with nickname N   *)
(* and comment C and no change of the account since, the owner's GET       *)
(* returns nickname N (id when N is omitted or blank) and comment C ("" if *)
(* omitted).  app.py's signup ignores both fields; main4.py's stores ""    *)
(* for a missing nickname.                                                 *)
(***************************************************************************)
C9_SignupThenRead ==
    (/\ variant \in BasicAuthVariants
     /\ last.op = "get"
     /\ last.status = 200
     /\ ByOwner
     /\ last.req.path \in DOMAIN created)
        => /\ last.out.nickname = PyOr(created[last.req.path].nickname, last.req.path)
           /\ last.out.comment = PyOr(created[last.req.path].comment, EmptyStr)

(***************************************************************************)
(* C10, as stated.  A POST /close that repeats, with the same credentials, *)
(* one that removed the account is answered 404 and changes nothing.       *)
(* app.py, main4.py and main5.py answer 401: the credentials no longer     *)
(* authenticate.                                                           *)
(***************************************************************************)
C10_RepeatedCloseIs404 ==
    RepeatedClose => (last.status = 404 /\ users = last.before)

(***************************************************************************)
(* C10, amended.  A POST /close that repeats, with the same credentials,   *)
(* one that removed the account is answered with a handled error, 404 in   *)
(* main.py and trial-myapp.py and 401 in app.py, main4.py and main5.py,    *)
(* never with an unhandled exception, and changes nothing.                 *)
(***************************************************************************)
C10_RepeatedCloseIsHandled ==
    RepeatedClose =>
        /\ last.status = (IF variant \in {"main", "myapp"} THEN 404 ELSE 401)
        /\ users = last.before

\* main.py, twice POST /close as the seeded user: the second is answered 404
\* by the handler's own test, with a JSONResponse as `authenticated_user`.
C10_Witness ==
    /\ RepeatedClose
    /\ variant = "main"
    /\ last.auth.kind = "JSONResponse"
    /\ last.status = 404

(***************************************************************************)
(* C11.  In each Basic-auth variant a PATCH /users/{id} by the owner whose *)
(* body carries neither nickname nor comment is answered 400 and leaves    *)
(* the dictionary as it was; it is never answered 200.  Only app.py has    *)
(* the test; main.py, main4.py and main5.py answer 200 to an empty body.   *)
(***************************************************************************)
C11_NothingToUpdateRejected ==
    (/\ variant \in BasicAuthVariants
     /\ last.op = "update"
     /\ ByOwner
     /\ last.req.body.nickname = None
     /\ last.req.body.comment = None)
        => /\ last.status = 400
           /\ users = last.before

(***************************************************************************)
(* C12.  In each Basic-auth variant a PATCH /users/{id} by the owner with  *)
(* nickname "" that succeeds leaves the stored nickname equal to id, and   *)
(* no stored account has the nickname "".  main.py, main4.py and main5.py  *)
(* store the "" of the request.                                            *)
(***************************************************************************)
C12_BlankNicknameResetsToId ==
    variant \in BasicAuthVariants =>
        /\ (/\ last.op = "update"
            /\ ByOwner
            /\ last.req.body.nickname = EmptyStr
            /\ last.status = 200)
              => users[last.req.path].nickname = last.req.path
        /\ \A id \in DOMAIN users : users[id].nickname # EmptyStr

(***************************************************************************)
(* C13.  A POST /signup whose identifier is not 6 to 20 characters of      *)
(* [A-Za-z0-9] is rejected with a client error and stores nothing, and     *)
(* every identifier in the dictionary satisfies that rule.  The error is   *)
(* 400 where a validator or the handler raises it; a request model that    *)
(* fails is answered by the framework, and main.py's signup answers 401    *)
(* without an Authorization header, so any 4xx counts as the rejection.    *)
(* main5.py's SignupRequest has the length constraints only and            *)
(* trial-myapp.py has no check at all: both store such an identifier.      *)
(***************************************************************************)
IdentifierOk(id) ==
    id # None /\ LenIn(id, UserIdMinLen, UserIdMaxLen) /\ IsAlnum(id)

ClientError(status) == status \in 400 .. 499

C13_SignupValidatesIdentifier ==
    /\ (last.op = "signup" /\ ~IdentifierOk(last.req.body.user_id))
          => (ClientError(last.status) /\ users = last.before)
    /\ \A id \in DOMAIN users : IdentifierOk(id)

(***************************************************************************)
(* C14.  In each Basic-auth variant a PATCH /users/{id} by the owner that  *)
(* is answered 200 and carries a nickname and no comment leaves the stored *)
(* comment of id as it was; one that carries a comment and no nickname     *)
(* leaves the stored nickname as it was; in both cases no account is added *)
(* or removed and the record of every other account is as it was.          *)
(***************************************************************************)
C14_UpdateLeavesOtherFields ==
    (/\ variant \in BasicAuthVariants
     /\ last.op = "update"
     /\ ByOwner
     /\ last.status = 200)
        => LET id == last.req.path
               b == last.req.body
               onlyNickname == b.nickname # None /\ b.comment = None
               onlyComment == b.comment # None /\ b.nickname = None
           IN /\ onlyNickname => users[id].comment = last.before[id].comment
              /\ onlyComment => users[id].nickname = last.before[id].nickname
              /\ (onlyNickname \/ onlyComment) =>
                    /\ DOMAIN users = DOMAIN last.before
                    /\ \A i \in DOMAIN users \ {id} : users[i] = last.before[i]

\* The owner's update carries the nickname "Johnny" alone, with a second
\* account in the dictionary: the nickname is written, the non-empty
\* comment stays.
C14_Witness ==
    /\ variant \in BasicAuthVariants
    /\ last.op = "update"
    /\ ByOwner
    /\ last.status = 200
    /\ last.req.body.nickname = Johnny
    /\ last.req.body.comment = None
    /\ last.before[last.req.path].nickname # Johnny
    /\ users[last.req.path].nickname = Johnny
    /\ users[last.req.path].comment # EmptyStr
    /\ \E i \in DOMAIN users : i # last.req.path

====
